---- MODULE Spec2Model ----
(***************************************************************************)
(* Model of src/src/legal_interpreter.py: the line parser (LegalParser),   *)
(* the tree-walking interpreter (LegalInterpreter) and its expression      *)
(* evaluator.  Text is a sequence of one-character strings, so that        *)
(* startswith / split / strip / re.sub are computed and not assumed.       *)
(* Python's call stack is the variable `stack`; one action executes one    *)
(* statement (or one loop test, one loop cap check, one return).           *)
(***************************************************************************)
EXTENDS Integers, Sequences, FiniteSets, TLC

----------------------------------------------------------------------------
(* Bounds of the model (not program constants).                            *)

\* deepest Python call nesting the model follows before RecursionError
MaxDepth == 8

(* Program constants.                                                      *)

\* legal_interpreter.py:222  `if self.loop_iterations > 1000`
LoopCap == 1000

\* legal_interpreter.py:93   `line[15:]`
VerdictPrefixLen == 15

\* legal_interpreter.py:239  `round(result, 2)`
RoundDigits == 2

----------------------------------------------------------------------------
(* Characters and Python str primitives.                                   *)

NL == "\n"

Whitespace == {" ", "\t", "\n", "\r"}

Digits == <<"0", "1", "2", "3", "4", "5", "6", "7", "8", "9">>

DigitChars == {Digits[i] : i \in 1..10}

DigitVal(c) == (CHOOSE i \in 1..10 : Digits[i] = c) - 1

AsciiLetters ==
  {"a","b","c","d","e","f","g","h","i","j","k","l","m",
   "n","o","p","q","r","s","t","u","v","w","x","y","z",
   "A","B","C","D","E","F","G","H","I","J","K","L","M",
   "N","O","P","Q","R","S","T","U","V","W","X","Y","Z"}

\* [a-zA-Z_]
IdentStart == AsciiLetters \cup {"_"}

\* [a-zA-Z0-9_]
IdentChar == IdentStart \cup DigitChars

\* \w of a str pattern is Unicode-aware: it also matches non-ASCII letters
WordChar == IdentChar \cup {"é"}

\* Python evaluates an argument once, before the call: K at the value of x
Bind(x, K(_)) == CHOOSE v \in {K(r) : r \in {x}} : TRUE

\* s[a:b] with 1-based inclusive ends; empty when a > b
Slice(s, a, b) == IF a > b THEN <<>> ELSE SubSeq(s, a, b)

\* s.startswith(p)
StartsWith(s, p) == Len(p) <= Len(s) /\ SubSeq(s, 1, Len(p)) = p

\* index of the first character at or after i that is not whitespace
RECURSIVE InkFrom(_, _)
InkFrom(s, i) ==
  IF i <= Len(s) /\ s[i] \in Whitespace THEN InkFrom(s, i + 1) ELSE i

\* index of the last character at or before i that is not whitespace
RECURSIVE InkUpTo(_, _)
InkUpTo(s, i) ==
  IF i >= 1 /\ s[i] \in Whitespace THEN InkUpTo(s, i - 1) ELSE i

\* s.lstrip()
LStrip(s) == Bind(s, LAMBDA t : Slice(t, InkFrom(t, 1), Len(t)))

\* s.strip()
Strip(s) == Bind(s, LAMBDA t : Slice(t, InkFrom(t, 1), InkUpTo(t, Len(t))))

\* first index i >= from with s[i..] starting with sub, or 0
RECURSIVE Find(_, _, _)
Find(s, sub, from) ==
  IF from + Len(sub) - 1 > Len(s) THEN 0
  ELSE IF SubSeq(s, from, from + Len(sub) - 1) = sub THEN from
  ELSE Find(s, sub, from + 1)

\* s.split(sep): every occurrence of the one-character separator splits
RECURSIVE SplitAll(_, _)
SplitAll(s, sep) ==
  Bind(Find(s, <<sep>>, 1), LAMBDA i :
    IF i = 0 THEN <<s>>
    ELSE Bind(Slice(s, i + 1, Len(s)), LAMBDA rest :
           <<Slice(s, 1, i - 1)>> \o SplitAll(rest, sep)))

\* s.split(sep, 1)
SplitOnce(s, sep) ==
  Bind(Find(s, sep, 1), LAMBDA i :
    IF i = 0 THEN <<s>>
    ELSE <<Slice(s, 1, i - 1), Slice(s, i + Len(sep), Len(s))>>)

\* index of the first whitespace character of s, or Len(s) + 1
RECURSIVE WordEnd(_, _)
WordEnd(s, i) ==
  IF i > Len(s) \/ s[i] \in Whitespace THEN i ELSE WordEnd(s, i + 1)

\* s.split(maxsplit=k): whitespace-separated words, the rest after k splits
\* kept whole with its leading whitespace removed and its tail untouched
RECURSIVE SplitWords(_, _)
SplitWords(s, k) ==
  Bind(LStrip(s), LAMBDA t :
    IF t = <<>> THEN <<>>
    ELSE IF k = 0 THEN <<t>>
    ELSE Bind(WordEnd(t, 1), LAMBDA e :
           <<Slice(t, 1, e - 1)>> \o SplitWords(Slice(t, e, Len(t)), k - 1)))

\* sep.join(parts)
RECURSIVE Join(_, _)
Join(parts, sep) ==
  IF parts = <<>> THEN <<>>
  ELSE IF Len(parts) = 1 THEN parts[1]
  ELSE parts[1] \o sep \o Join(Tail(parts), sep)

----------------------------------------------------------------------------
(* Keywords and markers of the language, as text.                          *)

kBEGIN ==
  <<"B","E","G","I","N","_","L","I","C","E","N","S","E","_",
    "A","G","R","E","E","M","E","N","T">>

kEND ==
  <<"E","N","D","_","L","I","C","E","N","S","E","_",
    "A","G","R","E","E","M","E","N","T">>

kPROCEEDINGS ==
  <<"C","O","M","M","E","N","C","E","_","L","E","G","A","L","_",
    "P","R","O","C","E","E","D","I","N","G","S">>

kSUMMON == <<"S","U","M","M","O","N">>

kREAD_EVIDENCE == <<"R","E","A","D","_","E","V","I","D","E","N","C","E">>

kDELIVER == <<"D","E","L","I","V","E","R"," ","V","E","R","D","I","C","T">>

kDEFINE == <<"D","E","F","I","N","E"," ","S","T","A","T","U","T","E">>

kWRITE_VERDICT == <<"W","R","I","T","E","_","V","E","R","D","I","C","T">>

kDISMISSED == <<"C","A","S","E","_","D","I","S","M","I","S","S","E","D">>

kLOOPHOLE ==
  <<"C","O","M","M","E","N","C","E"," ","L","E","G","A","L","_",
    "L","O","O","P","H","O","L","E">>

kUNTIL == <<"U","N","T","I","L">>

kIF == <<"I","F">>

kELSE == <<"E","L","S","E">>

kEND_IF == <<"E","N","D"," ","I","F">>

kEND_STATUTE == <<"E","N","D"," ","S","T","A","T","U","T","E">>

kEND_LOOPHOLE ==
  <<"E","N","D"," ","L","E","G","A","L","_","L","O","O","P","H","O","L","E">>

----------------------------------------------------------------------------
(* Statement AST (the dataclasses, lines 7-54).                            *)

None == [kind |-> "None"]

Summon(variable) == [kind |-> "Summon", variable |-> variable]

ReadEvidence(filename) == [kind |-> "ReadEvidence", filename |-> filename]

DeliverVerdict(message) == [kind |-> "DeliverVerdict", message |-> message]

DefineStatute(name, body) ==
  [kind |-> "DefineStatute", name |-> name, body |-> body]

WriteVerdict(filename) == [kind |-> "WriteVerdict", filename |-> filename]

Assignment(variable, expression) ==
  [kind |-> "Assignment", variable |-> variable, expression |-> expression]

StatuteCall(name) == [kind |-> "StatuteCall", name |-> name]

LegalLoophole(condition, body) ==
  [kind |-> "LegalLoophole", condition |-> condition, body |-> body]

Conditional(condition, then_body, else_body) ==
  [kind |-> "Conditional", condition |-> condition,
   then_body |-> then_body, else_body |-> else_body]

----------------------------------------------------------------------------
(* LegalParser.  current_line keeps Python's 0-based value, so the line    *)
(* under the cursor is lines[cur + 1].  A reader returns the statement (or *)
(* body), the cursor after it and the exception that escaped it ("" when   *)
(* none did).                                                              *)

Parsed(stmt, cur) == [exc |-> "", stmt |-> stmt, cur |-> cur]

ParseRaised(exc, cur) == [exc |-> exc, stmt |-> None, cur |-> cur]

\* `body.append(statement)` under `if statement:`
AppendIf(body, stmt) == IF stmt.kind # "None" THEN Append(body, stmt) ELSE body

RECURSIVE parse_statement(_, _)
RECURSIVE parse_statute_while(_, _, _)
RECURSIVE parse_loophole_while(_, _, _)
RECURSIVE parse_conditional_while(_, _, _, _, _)

Block(exc, body, cur) == [exc |-> exc, body |-> body, cur |-> cur]

\* the cursor after `if self.current_line < len(self.lines): ... += 1`
SkipEnd(lines, cur) == IF cur < Len(lines) THEN cur + 1 ELSE cur

\* lines 113-119: the while loop of parse_statute and the skip after it
parse_statute_while(lines, cur, body) ==
  IF cur < Len(lines) /\ lines[cur + 1] # kEND_STATUTE
    THEN Bind(parse_statement(lines, cur), LAMBDA r :
           IF r.exc # "" THEN Block(r.exc, body, r.cur)
           ELSE parse_statute_while(lines, r.cur, AppendIf(body, r.stmt)))
  ELSE Block("", body, SkipEnd(lines, cur))

\* the last of at most three whitespace-separated parts
LastPart(parts) == parts[Len(parts)]

\* lines 111-120; cur is already past the opening line
parse_statute(lines, cur) ==
  Bind(LastPart(SplitWords(lines[cur], 2)), LAMBDA name :
    Bind(parse_statute_while(lines, cur, <<>>), LAMBDA r :
      IF r.exc # "" THEN ParseRaised(r.exc, r.cur)
      ELSE Parsed(DefineStatute(name, r.body), r.cur)))

\* lines 124-130
parse_loophole_while(lines, cur, body) ==
  IF cur < Len(lines) /\ lines[cur + 1] # kEND_LOOPHOLE
    THEN Bind(parse_statement(lines, cur), LAMBDA r :
           IF r.exc # "" THEN Block(r.exc, body, r.cur)
           ELSE parse_loophole_while(lines, r.cur, AppendIf(body, r.stmt)))
  ELSE Block("", body, SkipEnd(lines, cur))

\* lines 122-131: `split("UNTIL", 1)[1]` raises IndexError without UNTIL
parse_loophole(lines, cur) ==
  Bind(SplitOnce(lines[cur], kUNTIL), LAMBDA parts :
    IF Len(parts) < 2 THEN ParseRaised("IndexError", cur)
    ELSE Bind(parse_loophole_while(lines, cur, <<>>), LAMBDA r :
           IF r.exc # "" THEN ParseRaised(r.exc, r.cur)
           ELSE Parsed(LegalLoophole(Strip(parts[2]), r.body), r.cur)))

Branches(exc, then_body, else_body, cur) ==
  [exc |-> exc, then_body |-> then_body, else_body |-> else_body, cur |-> cur]

\* lines 135-147; in_else is `current_body is else_body`
parse_conditional_while(lines, cur, then_body, else_body, in_else) ==
  IF cur < Len(lines) /\ lines[cur + 1] # kEND_IF
    THEN IF lines[cur + 1] = kELSE
           THEN parse_conditional_while(lines, cur + 1, then_body,
                                        else_body, TRUE)
         ELSE Bind(parse_statement(lines, cur), LAMBDA r :
                IF r.exc # "" THEN Branches(r.exc, then_body, else_body, r.cur)
                ELSE parse_conditional_while(
                       lines, r.cur,
                       IF in_else THEN then_body
                       ELSE AppendIf(then_body, r.stmt),
                       IF in_else THEN AppendIf(else_body, r.stmt)
                       ELSE else_body,
                       in_else))
  ELSE Branches("", then_body, else_body, SkipEnd(lines, cur))

\* lines 133-148
parse_conditional(lines, cur) ==
  Bind(Strip(SplitOnce(lines[cur], kIF)[2]), LAMBDA condition :
    Bind(parse_conditional_while(lines, cur, <<>>, <<>>, FALSE), LAMBDA r :
      IF r.exc # "" THEN ParseRaised(r.exc, r.cur)
      ELSE Parsed(Conditional(condition, r.then_body, r.else_body), r.cur)))

\* `len(parts) > 1` after parts = line.split(maxsplit=1)
HasArgument(line) == Len(SplitWords(line, 1)) > 1

\* `parts[1]` of parts = line.split(maxsplit=1)
Argument(line) == SplitWords(line, 1)[2]

\* lines 75-109
parse_statement(lines, cur) ==
  IF cur >= Len(lines) THEN Parsed(None, cur)
  ELSE Bind(lines[cur + 1], LAMBDA line :
    LET next == cur + 1
    IN  IF line \in {kBEGIN, kEND} THEN Parsed(None, next)
        ELSE IF line = kPROCEEDINGS THEN Parsed(None, next)
        ELSE IF StartsWith(line, kSUMMON)
          THEN Parsed(IF HasArgument(line) THEN Summon(Argument(line))
                      ELSE None, next)
        ELSE IF StartsWith(line, kREAD_EVIDENCE)
          THEN Parsed(IF HasArgument(line) THEN ReadEvidence(Argument(line))
                      ELSE None, next)
        ELSE IF StartsWith(line, kDELIVER)
          THEN Parsed(DeliverVerdict(
                        Strip(Slice(line, VerdictPrefixLen + 1, Len(line)))), next)
        ELSE IF StartsWith(line, kDEFINE) THEN parse_statute(lines, next)
        ELSE IF StartsWith(line, kWRITE_VERDICT)
          THEN Parsed(IF HasArgument(line) THEN WriteVerdict(Argument(line))
                      ELSE None, next)
        ELSE IF line = kDISMISSED THEN Parsed(None, next)
        ELSE IF StartsWith(line, kLOOPHOLE) THEN parse_loophole(lines, next)
        ELSE IF StartsWith(line, kIF) THEN parse_conditional(lines, next)
        ELSE IF Find(line, <<"=">>, 1) # 0
          THEN Bind(SplitOnce(line, <<"=">>), LAMBDA parts :
                 Parsed(Assignment(Strip(parts[1]), Strip(parts[2])), next))
        ELSE Parsed(StatuteCall(line), next))

\* line 62: the stripped non-blank lines of the stripped text
RECURSIVE NonBlankLines(_)
NonBlankLines(raw) ==
  IF raw = <<>> THEN <<>>
  ELSE Bind(Strip(Head(raw)), LAMBDA line :
         (IF line # <<>> THEN <<line>> ELSE <<>>) \o NonBlankLines(Tail(raw)))

Normalize(code) ==
  Bind(Strip(code), LAMBDA text : Bind(SplitAll(text, NL), NonBlankLines))

\* lines 67-71: the top-level while loop
RECURSIVE parse_while(_, _, _)
parse_while(lines, cur, statements) ==
  IF cur < Len(lines) - 1
    THEN Bind(parse_statement(lines, cur), LAMBDA r :
           IF r.exc # ""
             THEN [exc |-> r.exc, statements |-> statements, cur |-> r.cur]
           ELSE parse_while(lines, r.cur, AppendIf(statements, r.stmt)))
  ELSE [exc |-> "", statements |-> statements, cur |-> cur]

\* lines 63-73 on the normalized lines: `self.lines[0]` of an empty list
\* raises IndexError before the bookend comparison is made
parse_lines(lines) ==
  IF lines = <<>>
    THEN [exc |-> "IndexError", statements |-> <<>>, cur |-> 0]
  ELSE IF lines[1] # kBEGIN \/ lines[Len(lines)] # kEND
    THEN [exc |-> "SyntaxError", statements |-> <<>>, cur |-> 0]
  ELSE parse_while(lines, 1, <<>>)

\* lines 61-73
parse(code) == Bind(Normalize(code), parse_lines)

----------------------------------------------------------------------------
(* Python values of an expression.  A number is the exact fraction n/d     *)
(* (d > 0) so that `/` and round(.., 2) are computed; binary floating      *)
(* point agrees with it on the small operands the programs below use.      *)

RECURSIVE GCD(_, _)
GCD(a, b) == IF b = 0 THEN a ELSE Bind(a % b, LAMBDA m : GCD(b, m))

Abs(n) == IF n < 0 THEN -n ELSE n

Val(t, n, d, s, items) == [t |-> t, n |-> n, d |-> d, s |-> s, items |-> items]

\* n/d in lowest terms, as a value of type t
Num(t, n, d) ==
  Bind(<<n, d>>, LAMBDA f :
    IF f[1] = 0 THEN Val(t, 0, 1, <<>>, <<>>)
    ELSE Bind(GCD(Abs(f[1]), f[2]), LAMBDA g :
           Val(t, f[1] \div g, f[2] \div g, <<>>, <<>>)))

IntV(n) == Num("int", n, 1)

BoolV(b) == Num("bool", IF b THEN 1 ELSE 0, 1)

StrV(s) == Val("str", 0, 1, s, <<>>)

TupleV(items) == Val("tuple", 0, 1, <<>>, items)

BuiltinV(name) == Val("builtin", 0, 1, name, <<>>)

IsNumber(v) == v.t \in {"int", "float", "bool"}

----------------------------------------------------------------------------
(* The expression grammar eval() accepts, for the forms that occur in the  *)
(* programs below: numbers, names, string literals, parentheses, tuples,   *)
(* unary and binary + - * /, comparisons (chained), calls and subscripts.  *)
(* (No **, //, %, exponent or hex literals, escapes, keywords.)            *)
(* A reader returns [exc, node, pos]; pos is the next unread index.        *)

Node(exc, node, pos) == [exc |-> exc, node |-> node, pos |-> pos]

NoNode == [k |-> "none"]

SyntaxErr(pos) == Node("SyntaxError", NoNode, pos)

RECURSIVE SkipWS(_, _)
SkipWS(s, i) ==
  IF i <= Len(s) /\ s[i] \in {" ", "\t"} THEN SkipWS(s, i + 1) ELSE i

\* the character at i, or "" past the end
At(s, i) == IF i <= Len(s) THEN s[i] ELSE ""

\* end (exclusive) of the run of characters of set C starting at i
RECURSIVE RunEnd(_, _, _)
RunEnd(s, i, C) ==
  IF i <= Len(s) /\ s[i] \in C THEN RunEnd(s, i + 1, C) ELSE i

RECURSIVE DigitsValue(_, _)
\* the number that the first k digits of ds spell
DigitsValue(ds, k) ==
  IF k = 0 THEN 0 ELSE 10 * DigitsValue(ds, k - 1) + DigitVal(ds[k])

RECURSIVE Pow10(_)
Pow10(k) == IF k = 0 THEN 1 ELSE 10 * Pow10(k - 1)

\* the literal with integer digits ip, fraction digits fp, ending before e2
Literal(i, ip, fp, hasDot, e2, after) ==
  IF ip = <<>> /\ fp = <<>> THEN SyntaxErr(i)
  ELSE IF after \in WordChar THEN SyntaxErr(e2)
  ELSE IF hasDot
    THEN Node("", [k |-> "lit",
                   v |-> Num("float", DigitsValue(ip \o fp, Len(ip) + Len(fp)),
                             Pow10(Len(fp)))],
              e2)
  \* leading zeros in a non-zero decimal integer literal
  ELSE IF Len(ip) > 1 /\ ip[1] = "0" /\ DigitsValue(ip, Len(ip)) # 0
    THEN SyntaxErr(i)
  ELSE Node("", [k |-> "lit", v |-> IntV(DigitsValue(ip, Len(ip)))], e2)

\* a decimal literal at i: digits [ "." digits ] or "." digits
NumberLiteral(s, i) ==
  Bind(RunEnd(s, i, DigitChars), LAMBDA e1 :
    IF At(s, e1) = "."
      THEN Bind(RunEnd(s, e1 + 1, DigitChars), LAMBDA e2 :
             Bind(<<Slice(s, i, e1 - 1), Slice(s, e1 + 1, e2 - 1)>>, LAMBDA p :
               Literal(i, p[1], p[2], TRUE, e2, At(s, e2))))
    ELSE Bind(Slice(s, i, e1 - 1), LAMBDA ip :
           Literal(i, ip, <<>>, FALSE, e1, At(s, e1))))

RECURSIVE ParseExpr(_, _)
RECURSIVE ParseItems(_, _, _, _)
RECURSIVE ParseTrailers(_, _, _)
RECURSIVE ParseFactor(_, _)
RECURSIVE ParseTermRest(_, _, _)
RECURSIVE ParseArithRest(_, _, _)
RECURSIVE ParseCompareRest(_, _, _, _)

ItemsNode(items, comma, pos) ==
  Node("", [k |-> "items", items |-> items, comma |-> comma], pos)

\* comma-separated expressions up to the closing character; i is past the
\* opening one.  Returns node [k |-> "items", items, comma].
ParseItems(s, i, close, items) ==
  Bind(SkipWS(s, i), LAMBDA j :
    IF At(s, j) = close THEN ItemsNode(items, FALSE, j + 1)
    ELSE Bind(ParseExpr(s, j), LAMBDA r :
      IF r.exc # "" THEN r
      ELSE Bind(<<SkipWS(s, r.pos), Append(items, r.node)>>, LAMBDA m :
        IF At(s, m[1]) = close
          THEN ItemsNode(m[2], items # <<>>, m[1] + 1)
        ELSE IF At(s, m[1]) # "," THEN SyntaxErr(m[1])
        ELSE Bind(SkipWS(s, m[1] + 1), LAMBDA n :
          IF At(s, n) = close THEN ItemsNode(m[2], TRUE, n + 1)
          ELSE ParseItems(s, m[1] + 1, close, m[2])))))

\* ( ... ): a parenthesised expression, or a tuple
ParseParen(s, i) ==
  Bind(ParseItems(s, i + 1, ")", <<>>), LAMBDA r :
    IF r.exc # "" THEN r
    ELSE IF Len(r.node.items) = 1 /\ ~r.node.comma
      THEN Node("", r.node.items[1], r.pos)
    ELSE Node("", [k |-> "tuple", items |-> r.node.items], r.pos))

\* a string literal opened at i by the quote character s[i]
ParseString(s, i) ==
  Bind(Find(s, <<s[i]>>, i + 1), LAMBDA e :
    IF e = 0 THEN SyntaxErr(i)
    ELSE Node("", [k |-> "lit", v |-> StrV(Slice(s, i + 1, e - 1))], e + 1))

ParseName(s, i) ==
  Bind(RunEnd(s, i, WordChar), LAMBDA e :
    Node("", [k |-> "name", id |-> Slice(s, i, e - 1)], e))

\* i is at a non-blank character
ParseAtom(s, i) ==
  IF At(s, i) \in DigitChars \/ (At(s, i) = "." /\ At(s, i + 1) \in DigitChars)
    THEN NumberLiteral(s, i)
  ELSE IF At(s, i) \in WordChar THEN ParseName(s, i)
  ELSE IF At(s, i) \in {"\"", "'"} THEN ParseString(s, i)
  ELSE IF At(s, i) = "(" THEN ParseParen(s, i)
  ELSE SyntaxErr(i)

\* calls f(...) and subscripts a[...] after an atom
ParseTrailers(s, i, node) ==
  Bind(SkipWS(s, i), LAMBDA j :
    IF At(s, j) = "("
      THEN Bind(ParseItems(s, j + 1, ")", <<>>), LAMBDA r :
             IF r.exc # "" THEN r
             ELSE ParseTrailers(s, r.pos,
                    [k |-> "call", f |-> node, args |-> r.node.items]))
    ELSE IF At(s, j) = "["
      THEN Bind(ParseExpr(s, j + 1), LAMBDA r :
             IF r.exc # "" THEN r
             ELSE Bind(SkipWS(s, r.pos), LAMBDA m :
                    IF At(s, m) # "]" THEN SyntaxErr(m)
                    ELSE ParseTrailers(s, m + 1,
                           [k |-> "index", a |-> node, i |-> r.node])))
    ELSE Node("", node, j))

ParseFactor(s, i0) ==
  Bind(SkipWS(s, i0), LAMBDA i :
    IF At(s, i) \in {"-", "+"}
      THEN Bind(ParseFactor(s, i + 1), LAMBDA r :
             IF r.exc # "" THEN r
             ELSE Node("", [k |-> "unary", op |-> s[i], a |-> r.node], r.pos))
    ELSE Bind(ParseAtom(s, i), LAMBDA a :
           IF a.exc # "" THEN a ELSE ParseTrailers(s, a.pos, a.node)))

ParseTermRest(s, i, left) ==
  Bind(SkipWS(s, i), LAMBDA j :
    IF At(s, j) \in {"*", "/"}
      THEN Bind(ParseFactor(s, j + 1), LAMBDA r :
             IF r.exc # "" THEN r
             ELSE Bind([k |-> "bin", op |-> s[j], a |-> left, b |-> r.node],
                       LAMBDA node : ParseTermRest(s, r.pos, node)))
    ELSE Node("", left, j))

ParseTerm(s, i) ==
  Bind(ParseFactor(s, i), LAMBDA r :
    IF r.exc # "" THEN r ELSE ParseTermRest(s, r.pos, r.node))

ParseArithRest(s, i, left) ==
  Bind(SkipWS(s, i), LAMBDA j :
    IF At(s, j) \in {"+", "-"}
      THEN Bind(ParseTerm(s, j + 1), LAMBDA r :
             IF r.exc # "" THEN r
             ELSE Bind([k |-> "bin", op |-> s[j], a |-> left, b |-> r.node],
                       LAMBDA node : ParseArithRest(s, r.pos, node)))
    ELSE Node("", left, j))

ParseArith(s, i) ==
  Bind(ParseTerm(s, i), LAMBDA r :
    IF r.exc # "" THEN r ELSE ParseArithRest(s, r.pos, r.node))

\* the comparison operator at j: <<operator, length>>, or <<"", 0>>
CompareOpAt(s, j) ==
  IF At(s, j) \in {"<", ">", "=", "!"} /\ At(s, j + 1) = "="
    THEN <<CASE At(s, j) = "<" -> "<="
             [] At(s, j) = ">" -> ">="
             [] At(s, j) = "=" -> "=="
             [] OTHER -> "!=", 2>>
  ELSE IF At(s, j) \in {"<", ">"} THEN <<At(s, j), 1>>
  ELSE <<"", 0>>

\* (op b)* after the first operand: node [k |-> "cmp", ops, bs]
ParseCompareRest(s, i, ops, bs) ==
  Bind(SkipWS(s, i), LAMBDA j :
    Bind(CompareOpAt(s, j), LAMBDA o :
      IF o[2] = 0 THEN Node("", [k |-> "cmp", ops |-> ops, bs |-> bs], j)
      ELSE Bind(ParseArith(s, j + o[2]), LAMBDA r :
             IF r.exc # "" THEN r
             ELSE Bind(<<Append(ops, o[1]), Append(bs, r.node)>>, LAMBDA p :
                    ParseCompareRest(s, r.pos, p[1], p[2])))))

ParseExpr(s, i) ==
  Bind(ParseArith(s, i), LAMBDA r :
    IF r.exc # "" THEN r
    ELSE Bind(ParseCompareRest(s, r.pos, <<>>, <<>>), LAMBDA c :
           IF c.exc # "" THEN c
           ELSE IF c.node.ops = <<>> THEN Node("", r.node, c.pos)
           ELSE Node("", [k |-> "cmp", a |-> r.node, ops |-> c.node.ops,
                          bs |-> c.node.bs], c.pos)))

\* compile(expr, "<string>", "eval"): the whole text is one expression
ParseWhole(s) ==
  Bind(ParseExpr(s, 1), LAMBDA r :
    IF r.exc # "" THEN r
    ELSE IF SkipWS(s, r.pos) <= Len(s) THEN SyntaxErr(r.pos)
    ELSE r)

----------------------------------------------------------------------------
(* Evaluation of a parsed expression: [exc, v].                            *)

Result(v) == [exc |-> "", v |-> v]

Raised(exc) == [exc |-> exc, v |-> IntV(0)]

\* int op int stays int, anything with a float is a float
ArithType(a, b) == IF a.t = "float" \/ b.t = "float" THEN "float" ELSE "int"

Less(a, b) == a.n * b.d < b.n * a.d

NumEq(a, b) == a.n * b.d = b.n * a.d

BinaryOp(op, a, b) ==
  IF IsNumber(a) /\ IsNumber(b)
    THEN IF op = "+"
           THEN Result(Num(ArithType(a, b), a.n * b.d + b.n * a.d, a.d * b.d))
         ELSE IF op = "-"
           THEN Result(Num(ArithType(a, b), a.n * b.d - b.n * a.d, a.d * b.d))
         ELSE IF op = "*"
           THEN Result(Num(ArithType(a, b), a.n * b.n, a.d * b.d))
         \* true division always yields a float
         ELSE IF b.n = 0 THEN Raised("ZeroDivisionError")
         ELSE IF b.n < 0 THEN Result(Num("float", -(a.n * b.d), a.d * (-b.n)))
         ELSE Result(Num("float", a.n * b.d, a.d * b.n))
  ELSE IF op = "+" /\ a.t = "str" /\ b.t = "str" THEN Result(StrV(a.s \o b.s))
  ELSE IF op = "+" /\ a.t = "tuple" /\ b.t = "tuple"
    THEN Result(TupleV(a.items \o b.items))
  ELSE Raised("TypeError")

UnaryOp(op, a) ==
  IF ~IsNumber(a) THEN Raised("TypeError")
  ELSE LET t == IF a.t = "float" THEN "float" ELSE "int" IN
         Result(Num(t, IF op = "-" THEN -a.n ELSE a.n, a.d))

CompareOp(op, a, b) ==
  IF IsNumber(a) /\ IsNumber(b)
    THEN Result(BoolV(CASE op = "<"  -> Less(a, b)
                        [] op = ">"  -> Less(b, a)
                        [] op = "<=" -> ~Less(b, a)
                        [] op = ">=" -> ~Less(a, b)
                        [] op = "==" -> NumEq(a, b)
                        [] OTHER     -> ~NumEq(a, b)))
  ELSE IF op = "==" THEN Result(BoolV(a = b))
  ELSE IF op = "!=" THEN Result(BoolV(a # b))
  ELSE Raised("TypeError")

RECURSIVE Extreme(_, _)
\* the smallest (which = "min") or largest of a non-empty tuple of numbers;
\* the first wins a tie
Extreme(which, items) ==
  IF Len(items) = 1 THEN items[1]
  ELSE Bind(Extreme(which, Tail(items)), LAMBDA rest :
         LET h == Head(items)
         IN IF which = "min"
              THEN (IF Less(rest, h) THEN rest ELSE h)
              ELSE (IF Less(h, rest) THEN rest ELSE h))

AllNumbers(items) == \A i \in 1..Len(items) : IsNumber(items[i])

\* abs, min, max applied to evaluated arguments
CallBuiltin(name, args) ==
  IF name = <<"a","b","s">>
    THEN IF Len(args) # 1 \/ ~IsNumber(args[1]) THEN Raised("TypeError")
         ELSE Result(Num(IF args[1].t = "float" THEN "float" ELSE "int",
                         Abs(args[1].n), args[1].d))
  ELSE LET which == IF name = <<"m","i","n">> THEN "min" ELSE "max" IN
    IF args = <<>> THEN Raised("TypeError")
    ELSE IF Len(args) = 1
      THEN IF args[1].t = "tuple"
             THEN IF args[1].items = <<>> THEN Raised("ValueError")
                  ELSE IF AllNumbers(args[1].items)
                    THEN Result(Extreme(which, args[1].items))
                  ELSE Raised("TypeError")
           ELSE IF args[1].t = "str" /\ args[1].s = <<>>
             THEN Raised("ValueError")
           ELSE Raised("TypeError")
    ELSE IF AllNumbers(args) THEN Result(Extreme(which, args))
    ELSE Raised("TypeError")

Subscript(a, i) ==
  IF a.t \notin {"tuple", "str"} THEN Raised("TypeError")
  ELSE IF i.t \notin {"int", "bool"} THEN Raised("TypeError")
  ELSE LET len == IF a.t = "tuple" THEN Len(a.items) ELSE Len(a.s)
           k == IF i.n < 0 THEN i.n + len ELSE i.n
       IN  IF k < 0 \/ k >= len THEN Raised("IndexError")
           ELSE IF a.t = "tuple" THEN Result(a.items[k + 1])
           ELSE Result(StrV(<<a.s[k + 1]>>))

\* the locals handed to eval (line 238)
EvalLocals == {<<"a","b","s">>, <<"m","a","x">>, <<"m","i","n">>}

RECURSIVE Eval(_)
RECURSIVE EvalItems(_, _)
RECURSIVE EvalChain(_, _, _)

\* evaluates the nodes left to right: [exc, vs]
EvalItems(nodes, vs) ==
  IF nodes = <<>> THEN [exc |-> "", vs |-> vs]
  ELSE Bind(Eval(Head(nodes)), LAMBDA r :
         IF r.exc # "" THEN [exc |-> r.exc, vs |-> vs]
         ELSE EvalItems(Tail(nodes), Append(vs, r.v)))

\* a op1 b op2 c ...: stops at the first false comparison
EvalChain(left, ops, bs) ==
  Bind(Eval(Head(bs)), LAMBDA rb :
    IF rb.exc # "" THEN rb
    ELSE Bind(CompareOp(Head(ops), left, rb.v), LAMBDA c :
           IF c.exc # "" THEN c
           ELSE IF Len(ops) = 1 \/ c.v.n = 0 THEN c
           ELSE EvalChain(rb.v, Tail(ops), Tail(bs))))

Eval(node) ==
  CASE node.k = "lit" -> Result(node.v)
    [] node.k = "name" ->
         \* globals are {"__builtins__": None}: any other name fails
         IF node.id \in EvalLocals THEN Result(BuiltinV(node.id))
         ELSE Raised("NameError")
    [] node.k = "tuple" ->
         Bind(EvalItems(node.items, <<>>), LAMBDA r :
           IF r.exc # "" THEN Raised(r.exc) ELSE Result(TupleV(r.vs)))
    [] node.k = "unary" ->
         Bind(Eval(node.a), LAMBDA r :
           IF r.exc # "" THEN r ELSE UnaryOp(node.op, r.v))
    [] node.k = "bin" ->
         Bind(Eval(node.a), LAMBDA ra :
           IF ra.exc # "" THEN ra
           ELSE Bind(Eval(node.b), LAMBDA rb :
                  IF rb.exc # "" THEN rb ELSE BinaryOp(node.op, ra.v, rb.v)))
    [] node.k = "cmp" ->
         Bind(Eval(node.a), LAMBDA ra :
           IF ra.exc # "" THEN ra ELSE EvalChain(ra.v, node.ops, node.bs))
    [] node.k = "call" ->
         Bind(Eval(node.f), LAMBDA rf :
           IF rf.exc # "" THEN rf
           ELSE Bind(EvalItems(node.args, <<>>), LAMBDA ra :
                  IF ra.exc # "" THEN Raised(ra.exc)
                  ELSE IF rf.v.t # "builtin" THEN Raised("TypeError")
                  ELSE CallBuiltin(rf.v.s, ra.vs)))
    [] node.k = "index" ->
         Bind(Eval(node.a), LAMBDA ra :
           IF ra.exc # "" THEN ra
           ELSE Bind(Eval(node.i), LAMBDA ri :
                  IF ri.exc # "" THEN ri ELSE Subscript(ra.v, ri.v)))

\* float(s) of a str: optional sign, then a decimal number and nothing else
StrToFloat(t) ==
  Bind(IF At(t, 1) \in {"-", "+"} THEN Tail(t) ELSE t, LAMBDA body :
    IF body = <<>> \/ At(body, 1) \notin (DigitChars \cup {"."})
      THEN Raised("ValueError")
    ELSE Bind(NumberLiteral(body, 1), LAMBDA lit :
           IF lit.exc # "" \/ lit.pos <= Len(body) THEN Raised("ValueError")
           ELSE Result(Num("float",
                           IF At(t, 1) = "-" THEN -lit.node.v.n
                           ELSE lit.node.v.n,
                           lit.node.v.d))))

\* float(x): numbers convert, a str must spell a decimal number
ToFloat(v) ==
  IF IsNumber(v) THEN Result(Num("float", v.n, v.d))
  ELSE IF v.t = "str" THEN Bind(Strip(v.s), StrToFloat)
  ELSE Raised("TypeError")

\* round(x, 2) of the fraction n/d, ties to even; the result in 1/100ths
RoundHundredths(v) ==
  LET scale == Pow10(RoundDigits)
      q == (v.n * scale) \div v.d
      r == (v.n * scale) % v.d
  IN  IF 2 * r < v.d THEN q
      ELSE IF 2 * r > v.d THEN q + 1
      ELSE IF q % 2 = 0 THEN q ELSE q + 1

----------------------------------------------------------------------------
(* The environment and str() of its values.  A stored value is the int 0   *)
(* (Summon, or the default of `variables.get`) or a float that round(.., 2)*)
(* produced, kept as its number h of hundredths.                           *)

IntZero == [t |-> "int", h |-> 0]

FloatH(h) == [t |-> "float", h |-> h]

RECURSIVE NatStr(_)
\* the decimal digits of a natural number
NatStr(n) ==
  IF n < 10 THEN <<Digits[n + 1]>>
  ELSE NatStr(n \div 10) \o <<Digits[(n % 10) + 1]>>

\* str(x) of a stored value: "0" for the int, shortest repr for the float
Str(val) ==
  LET a == Abs(val.h)
      sign == IF val.h < 0 THEN <<"-">> ELSE <<>>
      frac == a % 100
  IN  IF val.t = "int" THEN sign \o NatStr(a \div 100)
      ELSE sign \o NatStr(a \div 100) \o <<".">> \o
           (IF frac % 10 = 0 THEN NatStr(frac \div 10)
            ELSE <<Digits[(frac \div 10) + 1], Digits[(frac % 10) + 1]>>)

\* a lookup whose default is 1
GetDefaultOne(vars, name) ==
  IF name \in DOMAIN vars THEN vars[name] ELSE [t |-> "int", h |-> 100]

\* self.variables.get(name, 0)
Get(vars, name) == IF name \in DOMAIN vars THEN vars[name] ELSE IntZero

\* d[key] = value
Put(d, key, value) ==
  [k \in DOMAIN d \cup {key} |-> IF k = key THEN value ELSE d[k]]

\* [a-zA-Z_][a-zA-Z0-9_]* between two \b: a whole run of \w characters
IsIdentifier(run) ==
  /\ run # <<>>
  /\ run[1] \in IdentStart
  /\ \A i \in 1..Len(run) : run[i] \in IdentChar

RECURSIVE SubstituteFrom(_, _, _)
\* line 236: one left-to-right pass of re.sub over the original text; every
\* identifier, whatever it names, becomes str(variables.get(identifier, 0))
SubstituteFrom(expr, i, vars) ==
  IF i > Len(expr) THEN <<>>
  ELSE IF expr[i] \in WordChar
    THEN Bind(RunEnd(expr, i, WordChar), LAMBDA e :
           Bind(Slice(expr, i, e - 1), LAMBDA run :
             (IF IsIdentifier(run) THEN Str(Get(vars, run)) ELSE run)
             \o SubstituteFrom(expr, e, vars)))
  ELSE <<expr[i]>> \o SubstituteFrom(expr, i + 1, vars)

Substitute(expr, vars) == SubstituteFrom(expr, 1, vars)

\* line 240: the exceptions evaluate catches
EvaluateCaught == {"NameError", "SyntaxError", "TypeError", "ZeroDivisionError"}

\* float(eval(expr, ...)) of line 238: [exc, v]
FloatEval(text) ==
  Bind(ParseWhole(text), LAMBDA p :
    IF p.exc # "" THEN Raised(p.exc)
    ELSE Bind(Eval(p.node), LAMBDA r :
           IF r.exc # "" THEN r ELSE ToFloat(r.v)))

\* lines 235-242: [exc, value, printed]; exc is the exception that escapes
evaluate(expr, vars) ==
  Bind(Substitute(expr, vars), LAMBDA text :
    Bind(FloatEval(text), LAMBDA r :
      IF r.exc = ""
        THEN [exc |-> "", value |-> FloatH(RoundHundredths(r.v)),
              printed |-> <<>>]
      ELSE IF r.exc \in EvaluateCaught
        THEN [exc |-> "", value |-> FloatH(0),
              printed |-> <<[kind |-> "ExpressionError", text |-> text]>>]
      ELSE [exc |-> r.exc, value |-> FloatH(0), printed |-> <<>>]))

\* an environment in which a lookup stores the default it returns
LookedSetDefault(vars, name) ==
  IF name \in DOMAIN vars THEN vars ELSE Put(vars, name, IntZero)

\* line 236: self.variables after self.variables.get(name, 0); get only reads
Looked(vars, name) == vars

RECURSIVE EnvironmentAfter(_, _, _)
\* lines 235-242: self.variables after evaluate(expr), one lookup for every
\* identifier of expr from index i on; nothing else in evaluate names self
EnvironmentAfter(expr, i, vars) ==
  IF i > Len(expr) THEN vars
  ELSE IF expr[i] \in WordChar
    THEN Bind(RunEnd(expr, i, WordChar), LAMBDA e :
           Bind(Slice(expr, i, e - 1), LAMBDA run :
             Bind(IF IsIdentifier(run) THEN Looked(vars, run) ELSE vars,
                  LAMBDA after : EnvironmentAfter(expr, e, after))))
  ELSE EnvironmentAfter(expr, i + 1, vars)

\* truth of a returned float
Truthy(val) == val.h # 0

----------------------------------------------------------------------------
(* LegalInterpreter: pure parts of the statement handlers.                 *)

\* what follows a replaced or copied piece of the message
Then(head, printed, rest) ==
  [exc |-> rest.exc, text |-> head \o rest.text,
   printed |-> printed \o rest.printed]

RECURSIVE InterpolateFrom(_, _, _)
\* line 198: re.sub(r'\(([^)]+)\)', ...) from index i on.  A match starts at
\* a "(" that is followed by at least one character other than ")" and then
\* a ")"; the text between them is evaluated.  [exc, text, printed]
InterpolateFrom(message, i, vars) ==
  IF i > Len(message) THEN [exc |-> "", text |-> <<>>, printed |-> <<>>]
  ELSE Bind(Find(message, <<")">>, i + 1), LAMBDA close :
    IF message[i] = "(" /\ close > i + 1
      THEN Bind(evaluate(Slice(message, i + 1, close - 1), vars), LAMBDA r :
             IF r.exc # ""
               THEN [exc |-> r.exc, text |-> <<>>, printed |-> r.printed]
             ELSE Bind(InterpolateFrom(message, close + 1, vars), LAMBDA rest :
                    Then(Str(r.value), r.printed, rest)))
    ELSE Bind(InterpolateFrom(message, i + 1, vars), LAMBDA rest :
           Then(<<message[i]>>, <<>>, rest)))

Interpolate(message, vars) == InterpolateFrom(message, 1, vars)

\* a log that puts the newest entry first
PrependVerdict(log, result) == <<result>> \o log

\* line 199: self.verdict.append(result)
AppendVerdict(log, result) == Append(log, result)

\* line 205: "\n".join(self.verdict)
Serialize(log) == Join(log, <<NL>>)

\* a table that keeps the first definition of a name
StoreStatuteFirstWins(table, name, body) ==
  IF name \in DOMAIN table THEN table ELSE Put(table, name, body)

\* line 170: self.statutes[statement.name] = statement.body
StoreStatute(table, name, body) == Put(table, name, body)

\* the branches taken the wrong way round
ConditionalBodySwapped(conditional, value) ==
  IF Truthy(value) THEN conditional.else_body ELSE conditional.then_body

\* lines 228-233: the body execute_conditional runs for a condition value
ConditionalBody(conditional, value) ==
  IF Truthy(value) THEN conditional.then_body ELSE conditional.else_body

\* lines 190-194: the exceptions read_evidence catches
EvidenceCaught == {"FileNotFoundError", "IOError", "SyntaxError"}

----------------------------------------------------------------------------
(* The inputs: LICENSE texts and the files beside them.                    *)

\* sum two variables, deliver the total, write the log
pTotal ==
  Join(<<kBEGIN,
         kPROCEEDINGS,
         kSUMMON \o <<" ","a">>,
         <<"a"," ","="," ","2">>,
         <<"b"," ","="," ","3">>,
         kDELIVER \o <<" ","\"","T","o","t","a","l",":"," ","(","a","+","b",
           ")","\"">>,
         kWRITE_VERDICT \o <<" ","o","u","t">>,
         kDISMISSED,
         kEND>>, <<NL>>)

\* a loop whose condition is always truthy and whose body counts its runs
pRunaway ==
  Join(<<kBEGIN,
         kLOOPHOLE \o <<" ">> \o kUNTIL \o <<" ","1">>,
         <<"x"," ","="," ","x"," ","+"," ","1">>,
         kEND_LOOPHOLE,
         kEND>>, <<NL>>)

\* a loop that ends by its condition
pCounting ==
  Join(<<kBEGIN,
         kLOOPHOLE \o <<" ">> \o kUNTIL \o <<" ","x"," ","<"," ","3">>,
         <<"x"," ","="," ","x"," ","+"," ","1">>,
         kEND_LOOPHOLE,
         kDELIVER \o <<" ","x"," ","i","s"," ","(","x",")">>,
         kEND>>, <<NL>>)

\* an always-truthy loop whose body is a loop that ends by its condition
pNestedReset ==
  Join(<<kBEGIN,
         kLOOPHOLE \o <<" ">> \o kUNTIL \o <<" ","1">>,
         kLOOPHOLE \o <<" ">> \o kUNTIL \o <<" ","x"," ","<"," ","2">>,
         <<"x"," ","="," ","x"," ","+"," ","1">>,
         kEND_LOOPHOLE,
         kEND_LOOPHOLE,
         <<"y"," ","="," ","1">>,
         kEND>>, <<NL>>)

\* an always-truthy loop whose body is an always-truthy loop
pNestedRunaway ==
  Join(<<kBEGIN,
         kLOOPHOLE \o <<" ">> \o kUNTIL \o <<" ","1">>,
         kLOOPHOLE \o <<" ">> \o kUNTIL \o <<" ","1">>,
         kEND_LOOPHOLE,
         kEND_LOOPHOLE,
         <<"y"," ","="," ","1">>,
         kEND>>, <<NL>>)

\* IF with a true condition
pThen ==
  Join(<<kBEGIN,
         <<"x"," ","="," ","5">>,
         kIF \o <<" ","(","x"," ",">"," ","0",")">>,
         <<"a"," ","="," ","1">>,
         <<"c"," ","="," ","3">>,
         kELSE,
         <<"b"," ","="," ","1">>,
         kEND_IF,
         <<"d"," ","="," ","4">>,
         kEND>>, <<NL>>)

\* IF with a false condition
pElse ==
  Join(<<kBEGIN,
         <<"x"," ","="," ","-","1">>,
         kIF \o <<" ","(","x"," ",">"," ","0",")">>,
         <<"a"," ","="," ","1">>,
         kELSE,
         <<"b"," ","="," ","1">>,
         <<"c"," ","="," ","3">>,
         kEND_IF,
         <<"d"," ","="," ","4">>,
         kEND>>, <<NL>>)

\* IF without ELSE and a false condition
pNoElse ==
  Join(<<kBEGIN,
         <<"x"," ","="," ","-","1">>,
         kIF \o <<" ","(","x"," ",">"," ","0",")">>,
         <<"a"," ","="," ","1">>,
         kEND_IF,
         kEND>>, <<NL>>)

\* a statute defined twice, then called
pRedefine ==
  Join(<<kBEGIN,
         kDEFINE \o <<" ","A">>,
         <<"x"," ","="," ","1">>,
         kEND_STATUTE,
         kDEFINE \o <<" ","A">>,
         <<"y"," ","="," ","2">>,
         kEND_STATUTE,
         <<"A">>,
         kEND>>, <<NL>>)

\* a statute that redefines itself while it runs
pRedefineInside ==
  Join(<<kBEGIN,
         kDEFINE \o <<" ","A">>,
         kDEFINE \o <<" ","A">>,
         <<"y"," ","="," ","2">>,
         kEND_STATUTE,
         <<"x"," ","="," ","1">>,
         kEND_STATUTE,
         <<"A">>,
         <<"A">>,
         kEND>>, <<NL>>)

\* a call of a statute that was never defined
pUndefined ==
  Join(<<kBEGIN,
         <<"B">>,
         <<"z"," ","="," ","1">>,
         kEND>>, <<NL>>)

\* expressions whose failure evaluate catches
pSoftFail ==
  Join(<<kBEGIN,
         <<"a"," ","="," ","1","/","0">>,
         <<"b"," ","="," ","(","1">>,
         <<"c"," ","="," ","é"," ","+"," ","1">>,
         <<"d"," ","="," ","1"," ","+"," ","(",")">>,
         <<"e"," ","="," ","7","/","2">>,
         kDELIVER \o <<" ","(","a",")"," ","(","e",")">>,
         kEND>>, <<NL>>)

\* float() of a string that is not a number
pValueError ==
  Join(<<kBEGIN,
         <<"x"," ","="," ","\"","\"">>,
         <<"y"," ","="," ","1">>,
         kEND>>, <<NL>>)

\* a subscript out of range
pIndexError ==
  Join(<<kBEGIN,
         <<"x"," ","="," ","(",")","[","0","]">>,
         <<"y"," ","="," ","1">>,
         kEND>>, <<NL>>)

\* the builtin functions
pBuiltins ==
  Join(<<kBEGIN,
         <<"a"," ","="," ","2">>,
         <<"b"," ","="," ","3">>,
         <<"m"," ","="," ","m","a","x","(","a",","," ","b",")">>,
         <<"n"," ","="," ","m","i","n","(","a",","," ","b",")">>,
         <<"p"," ","="," ","a","b","s","(","0"," ","-"," ","3",")">>,
         kEND>>, <<NL>>)

\* evidence file that does not exist
pMissing ==
  Join(<<kBEGIN,
         kDELIVER \o <<" ","b","e","f","o","r","e">>,
         kREAD_EVIDENCE \o <<" ","n","o","f","i","l","e">>,
         <<"y"," ","="," ","1">>,
         kEND>>, <<NL>>)

\* evidence path that cannot be opened
pUnreadable ==
  Join(<<kBEGIN,
         kREAD_EVIDENCE \o <<" ","d","i","r">>,
         <<"y"," ","="," ","1">>,
         kEND>>, <<NL>>)

\* evidence file without the END_LICENSE_AGREEMENT line
pBadBookends ==
  Join(<<kBEGIN,
         kREAD_EVIDENCE \o <<" ","b","a","d">>,
         <<"y"," ","="," ","1">>,
         kEND>>, <<NL>>)

\* evidence file with no non-blank line
pEmptyEvidence ==
  Join(<<kBEGIN,
         <<"x"," ","="," ","1">>,
         kREAD_EVIDENCE \o <<" ","e","m","p","t","y">>,
         <<"y"," ","="," ","1">>,
         kEND>>, <<NL>>)

\* evidence file whose loophole line has no UNTIL part
pNoUntilEvidence ==
  Join(<<kBEGIN,
         <<"x"," ","="," ","1">>,
         kREAD_EVIDENCE \o <<" ","n","o","u","n","t","i","l">>,
         <<"y"," ","="," ","1">>,
         kEND>>, <<NL>>)

\* evidence file that assigns, delivers and defines a statute
pEvidence ==
  Join(<<kBEGIN,
         <<"x"," ","="," ","1">>,
         kREAD_EVIDENCE \o <<" ","e","v">>,
         <<"S","h","a","r","e","d">>,
         kDELIVER \o <<" ","x","=","(","x",")">>,
         kEND>>, <<NL>>)

\* the empty verdict log written
pWriteEmpty ==
  Join(<<kBEGIN,
         kWRITE_VERDICT \o <<" ","o","u","t">>,
         kEND>>, <<NL>>)

\* a log holding one empty message written
pWriteBlank ==
  Join(<<kBEGIN,
         kDELIVER,
         kWRITE_VERDICT \o <<" ","o","u","t">>,
         kEND>>, <<NL>>)

\* messages, some empty, written twice
pWriteTwo ==
  Join(<<kBEGIN,
         kDELIVER \o <<" ","o","n","e">>,
         kDELIVER,
         kDELIVER,
         kWRITE_VERDICT \o <<" ","o","u","t">>,
         kDELIVER \o <<" ","t","w","o">>,
         kWRITE_VERDICT \o <<" ","o","u","t">>,
         kEND>>, <<NL>>)

\* a verdict file that cannot be opened for writing
pWriteFails ==
  Join(<<kBEGIN,
         kDELIVER \o <<" ","h","i">>,
         kWRITE_VERDICT \o <<" ","d","i","r">>,
         kDELIVER \o <<" ","a","g","a","i","n">>,
         kEND>>, <<NL>>)

\* a statute that calls itself
pRecursive ==
  Join(<<kBEGIN,
         kDEFINE \o <<" ","R">>,
         <<"n"," ","="," ","n"," ","+"," ","1">>,
         <<"R">>,
         kEND_STATUTE,
         <<"R">>,
         <<"y"," ","="," ","1">>,
         kEND>>, <<NL>>)

\* a message whose placeholder makes evaluate raise
pVerdictRaises ==
  Join(<<kBEGIN,
         kDELIVER \o <<" ","o","k">>,
         kDELIVER \o <<" ","b","a","d"," ","(","\"","\"",")">>,
         kDELIVER \o <<" ","n","e","v","e","r">>,
         kEND>>, <<NL>>)

\* verdicts delivered from a statute body inside a loop, through a conditional
pMixed ==
  Join(<<kBEGIN,
         kDEFINE \o <<" ","R","e","p","o","r","t">>,
         kIF \o <<" ","n"," ",">"," ","1">>,
         kDELIVER \o <<" ","b","i","g"," ","(","n",")">>,
         kELSE,
         kDELIVER \o <<" ","s","m","a","l","l"," ","(","n",")">>,
         kEND_IF,
         kEND_STATUTE,
         kLOOPHOLE \o <<" ">> \o kUNTIL \o <<" ","n"," ","<"," ","3">>,
         <<"n"," ","="," ","n"," ","+"," ","1">>,
         <<"R","e","p","o","r","t">>,
         kEND_LOOPHOLE,
         kWRITE_VERDICT \o <<" ","o","u","t">>,
         kEND>>, <<NL>>)

\* blank lines and indentation around the lines
pLayout ==
  Join(<<<<>>,
         <<" "," ","B","E","G","I","N","_","L","I","C","E","N","S","E","_",
           "A","G","R","E","E","M","E","N","T"," "," ">>,
         <<>>,
         <<"\t","S","U","M","M","O","N"," "," ","q">>,
         <<" "," "," ","q"," ","="," ","q"," ","+"," ","1",".","5"," "," ">>,
         kEND,
         <<>>,
         <<>>>>, <<NL>>)

\* no text at all
pEmptyText ==
  <<>>

\* only blank lines
pBlankText ==
  Join(<<<<>>,
         <<" "," ">>,
         <<>>>>, <<NL>>)

\* a single line
pOnlyBegin ==
  Join(<<kBEGIN>>, <<NL>>)

\* the closing bookend is missing
pNoEnd ==
  Join(<<kBEGIN,
         <<"x"," ","="," ","1">>>>, <<NL>>)

\* the opening bookend is missing
pNoBegin ==
  Join(<<<<"x"," ","="," ","1">>,
         kEND>>, <<NL>>)

\* a placeholder inside another pair of parentheses
pNestedParens ==
  Join(<<kBEGIN,
         <<"a"," ","="," ","2">>,
         kDELIVER \o <<" ","(","(","a",")",")">>,
         kEND>>, <<NL>>)

\* a variable that was never summoned or assigned is read
pDefault ==
  Join(<<kBEGIN,
         <<"z"," ","="," ","y"," ","+"," ","1">>,
         kDELIVER \o <<" ","y"," ","i","s"," ","(","y",")">>,
         kEND>>, <<NL>>)

\* assignments to names that begin with the letters of a keyword
pKeywordPrefix ==
  Join(<<kBEGIN,
         <<"S","U","M","M","O","N","S"," ","="," ","1">>,
         <<"R","E","A","D","_","E","V","I","D","E","N","C","E","_","C","O",
           "U","N","T"," ","="," ","2">>,
         <<"I","F","L","A","G"," ","="," ","1">>,
         <<"y"," ","="," ","2">>,
         kEND>>, <<NL>>)

\* a conditional inside the then-branch of a conditional, both with ELSE
pNested ==
  Join(<<kBEGIN,
         <<"x"," ","="," ","1">>,
         kIF \o <<" ","x">>,
         kIF \o <<" ","x"," ","-"," ","1">>,
         <<"a"," ","="," ","1">>,
         kELSE,
         <<"b"," ","="," ","1">>,
         kEND_IF,
         <<"c"," ","="," ","1">>,
         kELSE,
         <<"d"," ","="," ","1">>,
         kEND_IF,
         <<"e"," ","="," ","1">>,
         kEND>>, <<NL>>)

\* a statute whose body assigns to a name that begins with IF
pPrefixInBlock ==
  Join(<<kBEGIN,
         kDEFINE \o <<" ","A">>,
         <<"I","F","L","A","G"," ","="," ","1">>,
         kEND_STATUTE,
         <<"A">>,
         <<"y"," ","="," ","2">>,
         kEND>>, <<NL>>)

\* a statute without END STATUTE
pOpenStatute ==
  Join(<<kBEGIN,
         <<"x"," ","="," ","1">>,
         kDEFINE \o <<" ","A">>,
         <<"y"," ","="," ","1">>,
         kEND>>, <<NL>>)

\* a loophole without END LEGAL_LOOPHOLE
pOpenLoophole ==
  Join(<<kBEGIN,
         kLOOPHOLE \o <<" ">> \o kUNTIL \o <<" ","x"," ","<"," ","2">>,
         <<"x"," ","="," ","x"," ","+"," ","1">>,
         kEND>>, <<NL>>)

\* a conditional without END IF
pOpenIf ==
  Join(<<kBEGIN,
         kIF \o <<" ","1">>,
         <<"x"," ","="," ","1">>,
         kELSE,
         <<"y"," ","="," ","1">>,
         kEND>>, <<NL>>)

\* a loophole without END LEGAL_LOOPHOLE whose line has no UNTIL
pOpenNoUntil ==
  Join(<<kBEGIN,
         <<"x"," ","="," ","1">>,
         <<"C","O","M","M","E","N","C","E"," ","L","E","G","A","L","_","L",
           "O","O","P","H","O","L","E">>,
         <<"x"," ","="," ","x"," ","+"," ","1">>,
         kEND>>, <<NL>>)

\* a closed loophole whose line has no UNTIL
pNoUntil ==
  Join(<<kBEGIN,
         <<"x"," ","="," ","1">>,
         <<"C","O","M","M","E","N","C","E"," ","L","E","G","A","L","_","L",
           "O","O","P","H","O","L","E">>,
         <<"x"," ","="," ","x"," ","+"," ","1">>,
         kEND_LOOPHOLE,
         kEND>>, <<NL>>)

\* evidence: no closing bookend
eBad ==
  Join(<<kBEGIN,
         <<"x"," ","="," ","9">>>>, <<NL>>)

\* evidence: loophole line without UNTIL
eNoUntil ==
  Join(<<kBEGIN,
         <<"x"," ","="," ","9">>,
         kLOOPHOLE \o <<" ","x"," ","<"," ","3">>,
         kEND_LOOPHOLE,
         kEND>>, <<NL>>)

\* evidence: a valid program
eGood ==
  Join(<<kBEGIN,
         <<"x"," ","="," ","x"," ","+"," ","1">>,
         kDELIVER \o <<" ","f","r","o","m"," ","e","v","i","d","e","n","c",
           "e">>,
         kDEFINE \o <<" ","S","h","a","r","e","d">>,
         <<"x"," ","="," ","x"," ","*"," ","1","0">>,
         kEND_STATUTE,
         kEND>>, <<NL>>)

\* the LICENSE texts the model runs
Programs ==
  <<pTotal, pRunaway, pCounting, pNestedReset, pNestedRunaway,
    pThen, pElse, pNoElse, pRedefine, pRedefineInside,
    pUndefined, pSoftFail, pValueError, pIndexError, pBuiltins,
    pMissing, pUnreadable, pBadBookends, pEmptyEvidence, pNoUntilEvidence,
    pEvidence, pWriteEmpty, pWriteBlank, pWriteTwo, pWriteFails,
    pRecursive, pVerdictRaises, pMixed, pLayout, pEmptyText,
    pBlankText, pOnlyBegin, pNoEnd, pNoBegin, pNestedParens, pDefault,
    pKeywordPrefix, pNested, pPrefixInBlock, pOpenStatute, pOpenLoophole,
    pOpenIf, pOpenNoUntil, pNoUntil>>

\* file names used by the programs
fOut == <<"o","u","t">>

fDir == <<"d","i","r">>

fBad == <<"b","a","d">>

fEmpty == <<"e","m","p","t","y">>

fNoUntil == <<"n","o","u","n","t","i","l">>

fEv == <<"e","v">>

TextFile(text) == [kind |-> "text", text |-> text]

\* a path that open() refuses (a directory, no permission): OSError
Unopenable == [kind |-> "unopenable", text |-> <<>>]

\* the working directory before the run; a name outside it does not exist
InitialFiles ==
  [name \in {fDir, fBad, fEmpty, fNoUntil, fEv} |->
     CASE name = fDir     -> Unopenable
       [] name = fBad     -> TextFile(eBad)
       [] name = fEmpty   -> TextFile(<<>>)
       [] name = fNoUntil -> TextFile(eNoUntil)
       [] name = fEv      -> TextFile(eGood)]

----------------------------------------------------------------------------
(* State.                                                                  *)

VARIABLES
  prog,             \* which text of Programs is the LICENSE file
  status,           \* "start", "running", "done", "aborted"
  escaped,          \* the exception that escaped parse or execute, or ""
  variables,        \* self.variables
  statutes,         \* self.statutes
  verdict,          \* self.verdict
  loop_iterations,  \* self.loop_iterations
  stack,            \* the active for / while / try blocks, innermost last
  files,            \* the files of the working directory
  output            \* what was printed

vars ==
  <<prog, status, escaped, variables, statutes, verdict, loop_iterations,
    stack, files, output>>

\* `for statement in body:` about to run body[pc]
ForFrame(body) == [f |-> "for", body |-> body, pc |-> 1]

\* `while self.evaluate(loophole.condition):` of execute_loophole; at is
\* "test" before the condition, "body" inside the for loop, "check" after it
WhileFrame(loophole) == [f |-> "while", loophole |-> loophole, at |-> "test"]

\* the try block of read_evidence while the evidence program runs
TryFrame(filename) == [f |-> "try", filename |-> filename]

Printed(kind, text) == [kind |-> kind, text |-> text]

\* lines 152-156, and the LICENSE text read by run_legal_code (line 257)
Init ==
  /\ prog \in 1..Len(Programs)
  /\ status = "start"
  /\ escaped = ""
  /\ variables = <<>>
  /\ statutes = <<>>
  /\ verdict = <<>>
  /\ loop_iterations = 0
  /\ stack = <<>>
  /\ files = InitialFiles
  /\ output = <<>>

Top == stack[Len(stack)]

\* execute_statement is about to be called on Cur
AtStatement ==
  /\ status = "running"
  /\ stack # <<>>
  /\ Top.f = "for"
  /\ Top.pc <= Len(Top.body)

Cur == Top.body[Top.pc]

\* the stack once the current statement has returned
Advanced == [stack EXCEPT ![Len(stack)].pc = @ + 1]

\* the innermost try block of read_evidence that catches exc, or 0
Handler(exc) ==
  LET hs == {i \in 1..Len(stack) : stack[i].f = "try" /\ exc \in EvidenceCaught}
  IN  IF hs = {} THEN 0 ELSE CHOOSE i \in hs : \A j \in hs : j <= i

\* How a step ends: normally with the new stack, or with exception exc
\* unwinding the stack up to a handler, or out of execute into the handlers
\* of run_legal_code (lines 265-268).  A stack deeper than the host allows
\* is a RecursionError.
Ends(newStack, exc, printed) ==
  LET e == IF exc # "" THEN exc
           ELSE IF Len(newStack) > MaxDepth THEN "RecursionError" ELSE ""
  IN  IF e = ""
        THEN /\ stack' = newStack
             /\ output' = output \o printed
             /\ UNCHANGED <<status, escaped>>
      ELSE IF Handler(e) # 0
        THEN /\ stack' = SubSeq(stack, 1, Handler(e) - 1)
             /\ output' = output \o printed \o <<Printed("EvidenceError", <<>>)>>
             /\ UNCHANGED <<status, escaped>>
      ELSE /\ stack' = <<>>
           /\ status' = "aborted"
           /\ escaped' = e
           /\ output' = output \o printed \o
                <<Printed(IF e = "SyntaxError" THEN "StructuralError"
                          ELSE "UnexpectedError", <<>>)>>

\* whether a step that ends this way completes its statement
Completes(newStack, exc) == exc = "" /\ Len(newStack) <= MaxDepth

----------------------------------------------------------------------------
(* Actions.                                                                *)

\* lines 259-264: parse the LICENSE text and enter execute
Parse ==
  /\ status = "start"
  /\ \E r \in {parse(Programs[prog])} :
       IF r.exc = ""
         THEN /\ status' = "running"
              /\ stack' = <<ForFrame(r.statements)>>
              /\ UNCHANGED <<escaped, output>>
         ELSE /\ status' = "aborted"
              /\ escaped' = r.exc
              /\ output' = output \o
                   <<Printed(IF r.exc = "SyntaxError" THEN "StructuralError"
                             ELSE "UnexpectedError", <<>>)>>
              /\ UNCHANGED stack
  /\ UNCHANGED <<prog, variables, statutes, verdict, loop_iterations, files>>

\* lines 163-164
execute_summon ==
  /\ AtStatement /\ Cur.kind = "Summon"
  /\ variables' = Put(variables, Cur.variable, IntZero)
  /\ Ends(Advanced, "", <<>>)
  /\ UNCHANGED <<prog, statutes, verdict, loop_iterations, files>>

\* lines 182-195
read_evidence ==
  /\ AtStatement /\ Cur.kind = "ReadEvidence"
  /\ LET name == Cur.filename IN
       IF name \notin DOMAIN files
         THEN Ends(Advanced, "", <<Printed("EvidenceNotFound", name)>>)
       ELSE IF files[name].kind = "unopenable"
         THEN Ends(Advanced, "", <<Printed("EvidenceUnreadable", name)>>)
       ELSE \E r \in {parse(files[name].text)} :
         IF r.exc = "SyntaxError"
           THEN Ends(Advanced, "", <<Printed("EvidenceSyntaxError", name)>>)
         ELSE IF r.exc # "" THEN Ends(Advanced, r.exc, <<>>)
         ELSE Ends(Advanced \o <<TryFrame(name), ForFrame(r.statements)>>,
                   "", <<>>)
  /\ UNCHANGED <<prog, variables, statutes, verdict, loop_iterations, files>>

\* lines 197-200
deliver_verdict ==
  /\ AtStatement /\ Cur.kind = "DeliverVerdict"
  /\ \E r \in {Interpolate(Cur.message, variables)} :
       IF r.exc = ""
         THEN /\ verdict' = AppendVerdict(verdict, r.text)
              /\ Ends(Advanced, "", r.printed \o <<Printed("verdict", r.text)>>)
         ELSE /\ UNCHANGED verdict
              /\ Ends(Advanced, r.exc, r.printed)
  /\ UNCHANGED <<prog, variables, statutes, loop_iterations, files>>

\* lines 169-170
execute_define_statute ==
  /\ AtStatement /\ Cur.kind = "DefineStatute"
  /\ statutes' = StoreStatute(statutes, Cur.name, Cur.body)
  /\ Ends(Advanced, "", <<>>)
  /\ UNCHANGED <<prog, variables, verdict, loop_iterations, files>>

\* lines 202-207
write_verdict ==
  /\ AtStatement /\ Cur.kind = "WriteVerdict"
  /\ LET name == Cur.filename IN
       IF name \in DOMAIN files /\ files[name].kind = "unopenable"
         THEN /\ UNCHANGED files
              /\ Ends(Advanced, "", <<Printed("VerdictIOError", name)>>)
         ELSE /\ files' = Put(files, name, TextFile(Serialize(verdict)))
              /\ Ends(Advanced, "", <<>>)
  /\ UNCHANGED <<prog, variables, statutes, verdict, loop_iterations>>

\* lines 173-174
execute_assignment ==
  /\ AtStatement /\ Cur.kind = "Assignment"
  /\ \E r \in {evaluate(Cur.expression, variables)} :
       /\ \E after \in {EnvironmentAfter(Cur.expression, 1, variables)} :
            variables' = IF r.exc = "" THEN Put(after, Cur.variable, r.value)
                         ELSE after
       /\ Ends(Advanced, r.exc, r.printed)
  /\ UNCHANGED <<prog, statutes, verdict, loop_iterations, files>>

\* a call that looks the name up with self.statutes[name]
execute_statute_KeyError ==
  /\ AtStatement /\ Cur.kind = "StatuteCall"
  /\ IF Cur.name \in DOMAIN statutes
       THEN Ends(Advanced \o <<ForFrame(statutes[Cur.name])>>, "", <<>>)
       ELSE Ends(Advanced, "KeyError", <<>>)
  /\ UNCHANGED <<prog, variables, statutes, verdict, loop_iterations, files>>

\* lines 209-214
execute_statute ==
  /\ AtStatement /\ Cur.kind = "StatuteCall"
  /\ IF Cur.name \in DOMAIN statutes
       THEN Ends(Advanced \o <<ForFrame(statutes[Cur.name])>>, "", <<>>)
       ELSE Ends(Advanced, "", <<Printed("UndefinedStatuteError", Cur.name)>>)
  /\ UNCHANGED <<prog, variables, statutes, verdict, loop_iterations, files>>

\* lines 216-217: entering execute_loophole resets the shared counter
execute_loophole ==
  /\ AtStatement /\ Cur.kind = "LegalLoophole"
  /\ LET newStack == Advanced \o <<WhileFrame(Cur)>> IN
       /\ loop_iterations' = IF Completes(newStack, "") THEN 0
                             ELSE loop_iterations
       /\ Ends(newStack, "", <<>>)
  /\ UNCHANGED <<prog, variables, statutes, verdict, files>>

\* line 218: the while test; a truthy value starts the for loop of line 219
loophole_test ==
  /\ status = "running" /\ stack # <<>>
  /\ Top.f = "while" /\ Top.at = "test"
  /\ \E r \in {evaluate(Top.loophole.condition, variables)} :
       IF r.exc # "" THEN Ends(stack, r.exc, r.printed)
       ELSE IF Truthy(r.value)
         THEN Ends([stack EXCEPT ![Len(stack)].at = "body"]
                     \o <<ForFrame(Top.loophole.body)>>, "", r.printed)
       ELSE Ends(SubSeq(stack, 1, Len(stack) - 1), "", r.printed)
  /\ variables' = EnvironmentAfter(Top.loophole.condition, 1, variables)
  /\ UNCHANGED <<prog, statutes, verdict, loop_iterations, files>>

\* lines 221-225: after the body, the cap check and then the increment
loophole_check ==
  /\ status = "running" /\ stack # <<>>
  /\ Top.f = "while" /\ Top.at = "check"
  /\ IF loop_iterations > LoopCap
       THEN /\ Ends(SubSeq(stack, 1, Len(stack) - 1), "",
                    <<Printed("LoopRunawayWarning", <<>>)>>)
            /\ UNCHANGED loop_iterations
       ELSE /\ loop_iterations' = loop_iterations + 1
            /\ Ends([stack EXCEPT ![Len(stack)].at = "test"], "", <<>>)
  /\ UNCHANGED <<prog, variables, statutes, verdict, files>>

\* lines 227-233
execute_conditional ==
  /\ AtStatement /\ Cur.kind = "Conditional"
  /\ \E r \in {evaluate(Cur.condition, variables)} :
       IF r.exc # "" THEN Ends(Advanced, r.exc, r.printed)
       ELSE Ends(Advanced \o <<ForFrame(ConditionalBody(Cur, r.value))>>,
                 "", r.printed)
  /\ variables' = EnvironmentAfter(Cur.condition, 1, variables)
  /\ UNCHANGED <<prog, statutes, verdict, loop_iterations, files>>

\* the stack after the innermost for loop is exhausted: the loop body of a
\* loophole goes on to the cap check, an evidence program leaves its try
\* block, a statute or conditional body returns to its caller
Returned ==
  LET below == SubSeq(stack, 1, Len(stack) - 1) IN
    IF below = <<>> THEN below
    ELSE IF below[Len(below)].f = "while"
      THEN [below EXCEPT ![Len(below)].at = "check"]
    ELSE IF below[Len(below)].f = "try"
      THEN SubSeq(below, 1, Len(below) - 1)
    ELSE below

\* a `for statement in ...` loop (lines 159, 211, 219, 229, 232) runs out
end_for ==
  /\ status = "running" /\ stack # <<>>
  /\ Top.f = "for" /\ Top.pc > Len(Top.body)
  /\ stack' = Returned
  /\ status' = IF Returned = <<>> THEN "done" ELSE status
  /\ UNCHANGED <<prog, escaped, variables, statutes, verdict, loop_iterations,
                 files, output>>

Next ==
  \/ Parse
  \/ execute_summon
  \/ read_evidence
  \/ deliver_verdict
  \/ execute_define_statute
  \/ write_verdict
  \/ execute_assignment
  \/ execute_statute
  \/ execute_loophole
  \/ loophole_test
  \/ loophole_check
  \/ execute_conditional
  \/ end_for

Spec == Init /\ [][Next]_vars

\* the interpreter is one sequential process: it always takes its next step
FairSpec == Spec /\ WF_vars(Next)

----------------------------------------------------------------------------
(* Properties.                                                             *)

License == Programs[prog]

Finished == status \in {"done", "aborted"}

\* the value of a variable in 1/100ths, 0 when it has no entry
Hundredths(name) == Get(variables, name).h

Defined(name) == name \in DOMAIN variables

IsPrefix(a, b) == Len(a) <= Len(b) /\ SubSeq(b, 1, Len(a)) = a

\* an execute_loophole call is active at depth d of the stack
InLoophole(d) == Len(stack) >= d /\ stack[d].f = "while"

\* C1: every Loophole execution terminates, also when its condition is
\* truthy on every evaluation and its body executes another Loophole: a
\* loophole that is entered is left again.
C1_EveryLoopholeTerminates ==
  \A d \in 1..(MaxDepth + 1) : InLoophole(d) ~> ~InLoophole(d)

\* C2: a Loophole whose condition is always truthy and whose body holds no
\* other Loophole executes its body at most 1000 times (the body of
\* pRunaway adds one to x on each execution), warns and stops.
C2_BodyRunsAtMostCapTimes ==
  License = pRunaway =>
    /\ Hundredths(<<"x">>) <= LoopCap * 100
    /\ (status = "done" =>
          output = <<Printed("LoopRunawayWarning", <<>>)>>)

\* the first non-blank line is not BEGIN_LICENSE_AGREEMENT or the last is
\* not END_LICENSE_AGREEMENT, or there is no non-blank line
BadBookends(code) ==
  \E lines \in {Normalize(code)} :
    \/ lines = <<>>
    \/ lines[1] # kBEGIN
    \/ lines[Len(lines)] # kEND

\* C3: parse of a text with a wrong first or last non-blank line (or with
\* no non-blank line, or a single line) fails with SyntaxError and no
\* Program is executed.
C3_BadBookendsRaiseSyntaxError ==
  (status # "start" /\ BadBookends(License)) =>
    (status = "aborted" /\ escaped = "SyntaxError" /\ stack = <<>>)

\* the exception that escapes the evaluate call of the next step, or ""
EvaluateEscapes ==
  IF AtStatement /\ Cur.kind \in {"Assignment", "Conditional"}
    THEN evaluate(IF Cur.kind = "Assignment" THEN Cur.expression
                  ELSE Cur.condition, variables).exc
  ELSE IF AtStatement /\ Cur.kind = "DeliverVerdict"
    THEN Interpolate(Cur.message, variables).exc
  ELSE IF status = "running" /\ stack # <<>> /\ Top.f = "while"
          /\ Top.at = "test"
    THEN evaluate(Top.loophole.condition, variables).exc
  ELSE ""

\* C4: evaluate never raises: whatever expression a statement hands it in
\* whatever environment, no exception escapes it.
C4_EvaluateNeverRaises == EvaluateEscapes = ""

\* read_evidence cannot open the file or cannot parse its text
EvidenceFails(name) ==
  \/ name \notin DOMAIN files
  \/ files[name].kind = "unopenable"
  \/ parse(files[name].text).exc # ""

\* C5: a ReadEvidence whose file is missing, unreadable or fails to parse
\* is skipped: read_evidence returns, the environment, the statute table
\* and the verdict log are unchanged, and the next statement is executed.
C5_FailedEvidenceIsSkipped ==
  [][(AtStatement /\ Cur.kind = "ReadEvidence" /\ EvidenceFails(Cur.filename))
       => /\ stack' = Advanced
          /\ status' = "running"
          /\ UNCHANGED <<variables, statutes, verdict>>]_vars

\* C6: abs, min and max applied to literals and variables return the
\* function's value: with a = 2 and b = 3, max(a, b) is 3.0, min(a, b) is
\* 2.0 and abs(0 - 3) is 3.0.
C6_BuiltinsAreCallable ==
  (License = pBuiltins /\ status = "done") =>
    /\ Hundredths(<<"m">>) = 300
    /\ Hundredths(<<"n">>) = 200
    /\ Hundredths(<<"p">>) = 300

\* a for loop keeps its body and runs it in order, one statement a step
BodiesRunInOrder ==
  \A d \in 1..Len(stack) :
    (d <= Len(stack') /\ stack[d].f = "for") =>
      /\ stack'[d].f = "for"
      /\ stack'[d].body = stack[d].body
      /\ stack'[d].pc \in {stack[d].pc, stack[d].pc + 1}

\* the text has no ELSE line
NoElseLine(code) ==
  \A i \in 1..Len(Normalize(code)) : Normalize(code)[i] # kELSE

\* C7: execute_conditional evaluates the condition once (what evaluate
\* prints is printed once) and, when evaluate returns a value, runs
\* then_body (in order, nothing of else_body) if the value is non-zero and
\* else_body (nothing of then_body) otherwise, and changes nothing else; an
\* IF block without an ELSE line has an empty else_body, so with a false
\* condition no state changes.
C7_ConditionalRunsOneBranch ==
  /\ [][/\ (AtStatement /\ Cur.kind = "Conditional" /\ Len(stack) < MaxDepth
              /\ EvaluateEscapes = "")
            => /\ stack' = Advanced \o
                   <<ForFrame(IF evaluate(Cur.condition, variables).value.h # 0
                              THEN Cur.then_body ELSE Cur.else_body)>>
               /\ output' = output \o evaluate(Cur.condition, variables).printed
               /\ UNCHANGED <<variables, statutes, verdict, loop_iterations,
                              files, status>>
        /\ BodiesRunInOrder]_vars
  /\ []((AtStatement /\ Cur.kind = "Conditional" /\ NoElseLine(License))
          => Cur.else_body = <<>>)
  /\ []((License = pNoElse /\ status = "done")
          => DOMAIN variables = {<<"x">>})
  /\ []((License = pThen /\ status = "done")
          => DOMAIN variables = {<<"x">>, <<"a">>, <<"c">>, <<"d">>})
  /\ []((License = pElse /\ status = "done")
          => DOMAIN variables = {<<"x">>, <<"b">>, <<"c">>, <<"d">>})

\* the else-branch of pElse has run, the then-branch has not
C7_Witness ==
  /\ License = pElse /\ status = "done"
  /\ Defined(<<"b">>) /\ ~Defined(<<"a">>)

\* C8: a StatuteCall(name) executes exactly the body that the most
\* recently executed DefineStatute of that name stored: DefineStatute
\* overwrites the entry, no other statement touches the table, and the call
\* runs the entry as it is at the call.
C8_LastDefinitionWins ==
  /\ [][/\ (AtStatement /\ Cur.kind = "DefineStatute")
            => /\ DOMAIN statutes' = DOMAIN statutes \cup {Cur.name}
               /\ statutes'[Cur.name] = Cur.body
               /\ \A n \in DOMAIN statutes \ {Cur.name} :
                    statutes'[n] = statutes[n]
        /\ ~(AtStatement /\ Cur.kind = "DefineStatute")
            => statutes' = statutes
        /\ (AtStatement /\ Cur.kind = "StatuteCall" /\ Len(stack) < MaxDepth
              /\ Cur.name \in DOMAIN statutes)
            => stack' = Advanced \o <<ForFrame(statutes[Cur.name])>>]_vars
  /\ []((License = pRedefine /\ status = "done")
          => (Hundredths(<<"y">>) = 200 /\ ~Defined(<<"x">>)))

\* A was defined twice and called: only the second body has run
C8_Witness ==
  /\ License = pRedefine /\ status = "done"
  /\ Defined(<<"y">>) /\ ~Defined(<<"x">>)

\* the next step is a DeliverVerdict that returns
DeliverReturns ==
  AtStatement /\ Cur.kind = "DeliverVerdict" /\ EvaluateEscapes = ""

ReadLines(text) == IF text = <<>> THEN <<>> ELSE SplitAll(text, NL)

\* C10: after a successful write_verdict, reading the file back and
\* splitting it into lines gives the entries of the verdict log, same
\* count and same order.
C10_WriteThenReadBack ==
  [][(AtStatement /\ Cur.kind = "WriteVerdict"
        /\ ~(Cur.filename \in DOMAIN files
             /\ files[Cur.filename].kind = "unopenable"))
       => ReadLines(files'[Cur.filename].text) = verdict]_vars

\* first index j >= i with message[j] a parenthesis, or 0
RECURSIVE NextParen(_, _)
NextParen(message, i) ==
  IF i > Len(message) THEN 0
  ELSE IF message[i] \in {"(", ")"} THEN i
  ELSE NextParen(message, i + 1)

\* the message with every (expr) that holds no parenthesis replaced by the
\* rendered value of expr, every other character kept
RECURSIVE InnermostFrom(_, _, _)
InnermostFrom(message, i, env) ==
  IF i > Len(message) THEN <<>>
  ELSE Bind(NextParen(message, i + 1), LAMBDA c :
    IF message[i] = "(" /\ c > i + 1 /\ message[c] = ")"
      THEN Bind(evaluate(Slice(message, i + 1, c - 1), env), LAMBDA r :
             Str(r.value) \o InnermostFrom(message, c + 1, env))
    ELSE <<message[i]>> \o InnermostFrom(message, i + 1, env))

\* C11: a deliver_verdict that returns appends, as one new last entry, the
\* message with every parenthesised (expr) holding no inner parenthesis
\* replaced by the rendered value of evaluate(expr) and every other
\* character unchanged; with a = 2 and b = 3 the message of pTotal,
\* "Total: (a+b)", yields "Total: 5.0".
C11_VerdictReplacesPlaceholders ==
  /\ [][DeliverReturns
          => verdict' = Append(verdict, InnermostFrom(Cur.message, 1, variables))
       ]_vars
  /\ []((License = pTotal /\ status = "done")
          => verdict = <<<<"\"","T","o","t","a","l",":"," ","5",".","0","\"">>>>)

\* the next step is one call of evaluate and nothing else: the test of a
\* loophole or the condition of a conditional
EvaluatesOnly ==
  /\ status = "running" /\ stack # <<>>
  /\ \/ Top.f = "while" /\ Top.at = "test"
     \/ AtStatement /\ Cur.kind = "Conditional"

\* the expression that step evaluates
Evaluand == IF Top.f = "while" THEN Top.loophole.condition ELSE Cur.condition

\* C12: evaluate is pure.  A step that only evaluates an expression leaves
\* the environment, the statute table, the verdict log and the loop counter
\* as they were, and evaluating the same expression again right after it
\* gives the same result; an assignment changes the entry of its own
\* variable and nothing else; delivering a verdict changes the log only.
C12_EvaluateIsPure ==
  [][/\ EvaluatesOnly
          => /\ UNCHANGED <<variables, statutes, verdict, loop_iterations>>
             /\ evaluate(Evaluand, variables') = evaluate(Evaluand, variables)
     /\ (AtStatement /\ Cur.kind = "Assignment")
          => /\ UNCHANGED <<statutes, verdict, loop_iterations>>
             /\ DOMAIN variables' \subseteq DOMAIN variables \cup {Cur.variable}
             /\ \A n \in DOMAIN variables \ {Cur.variable} :
                  n \in DOMAIN variables' /\ variables'[n] = variables[n]
     /\ (AtStatement /\ Cur.kind = "DeliverVerdict")
          => UNCHANGED <<variables, statutes, loop_iterations>>
    ]_vars

\* the loop of pCounting has tested `x < 3` with x unset and is in its
\* first run of the body
C12_Witness ==
  /\ License = pCounting
  /\ Len(stack) = 3 /\ stack[2].f = "while" /\ stack[2].at = "body"
  /\ variables = <<>>

RECURSIVE Identifiers(_, _)
\* the identifiers the pattern of line 236 finds in expr from index i on
Identifiers(expr, i) ==
  IF i > Len(expr) THEN {}
  ELSE IF expr[i] \in WordChar
    THEN Bind(RunEnd(expr, i, WordChar), LAMBDA e :
           Bind(Slice(expr, i, e - 1), LAMBDA run :
             (IF IsIdentifier(run) THEN {run} ELSE {})
             \cup Identifiers(expr, e)))
  ELSE Identifiers(expr, i + 1)

\* the expressions the next step hands to evaluate
EvaluatedNext ==
  IF EvaluatesOnly THEN {Evaluand}
  ELSE IF AtStatement /\ Cur.kind = "Assignment" THEN {Cur.expression}
  ELSE {}

\* C13: an identifier without an entry in the environment is read as 0 and
\* gets no entry.  Whenever a step evaluates an expression, the result is
\* the one the same expression has in the environment extended by the entry
\* 0 for any one of its unset identifiers, and after the step that
\* identifier still has no entry unless the step is an assignment to it;
\* `z = y + 1` with y never set stores 1.0 in z and leaves y without entry.
C13_UnsetIdentifierReadsAsZero ==
  /\ [][\A e \in EvaluatedNext :
          \A n \in Identifiers(e, 1) \ DOMAIN variables :
            /\ evaluate(e, variables) = evaluate(e, Put(variables, n, IntZero))
            /\ n \in DOMAIN variables'
                 => (AtStatement /\ Cur.kind = "Assignment"
                       /\ Cur.variable = n)
       ]_vars
  /\ []((License = pDefault /\ status = "done")
          => /\ DOMAIN variables = {<<"z">>}
             /\ variables[<<"z">>] = FloatH(100)
             /\ verdict = <<<<"y"," ","i","s"," ","0",".","0">>>>)

\* pDefault has run to its end: z holds 1.0 and y has no entry
C13_Witness ==
  /\ License = pDefault /\ status = "done"
  /\ Defined(<<"z">>) /\ ~Defined(<<"y">>)

\* the next step calls a statute that has no entry in the table
CallsUnknownStatute ==
  AtStatement /\ Cur.kind = "StatuteCall" /\ Cur.name \notin DOMAIN statutes

\* C14: a StatuteCall whose name has no entry in the statute table is not
\* fatal.  The step logs an UndefinedStatuteError and returns: nothing
\* escapes, the environment, the statute table and the verdict log are as
\* before, and execution stands at the statement after the call in the same
\* body; in pUndefined the assignment after the call of B is executed.
C14_UnknownStatuteIsNotFatal ==
  /\ [][CallsUnknownStatute
          => /\ status' = "running" /\ escaped' = ""
             /\ UNCHANGED <<variables, statutes, verdict>>
             /\ stack' = Advanced
             /\ output' = output \o <<Printed("UndefinedStatuteError", Cur.name)>>
       ]_vars
  /\ []((License = pUndefined /\ status = "done")
          => /\ DOMAIN variables = {<<"z">>}
             /\ variables[<<"z">>] = FloatH(100)
             /\ statutes = <<>> /\ verdict = <<>>)

\* pUndefined has called B, logged the error and run the assignment after it
C14_Witness ==
  /\ License = pUndefined /\ status = "done"
  /\ output = <<Printed("UndefinedStatuteError", <<"B">>)>>
  /\ Defined(<<"z">>)

\* the lines parse works on (line 62)
Lines == Normalize(License)

\* a line `<name> = <expr>` whose name, the text before the first "=", is an
\* identifier and none of the words the parser gives a meaning to
IsAssignmentLine(line) ==
  LET name == Strip(SplitOnce(line, <<"=">>)[1])
      keywords ==
        {kBEGIN, kEND, kPROCEEDINGS, kSUMMON, kREAD_EVIDENCE, kWRITE_VERDICT,
         kDISMISSED, kIF, kELSE, kUNTIL}
        \cup {SplitWords(k, 1)[1] : k \in {kDELIVER, kDEFINE, kLOOPHOLE, kEND_IF}}
  IN  /\ Find(line, <<"=">>, 1) # 0
      /\ IsIdentifier(name)
      /\ name \notin keywords

\* C15: every line `<name> = <expr>` whose name is an identifier other than
\* a keyword parses to Assignment(name, expr) and the reader consumes that
\* one line, whatever letters the name begins with.
C15_AssignmentLinesParseAsAssignments ==
  status # "start"
    => \A k \in 1..Len(Lines) :
         IsAssignmentLine(Lines[k])
           => LET parts == SplitOnce(Lines[k], <<"=">>)
              IN  parse_statement(Lines, k - 1)
                    = Parsed(Assignment(Strip(parts[1]), Strip(parts[2])), k)

\* the end marker of the block a line opens, <<>> when it opens none: a
\* block keyword opens a block where it is the leading word of the line
Opens(line) ==
  LET leads(k) == /\ StartsWith(line, k)
                  /\ (Len(line) = Len(k) \/ line[Len(k) + 1] \in Whitespace)
  IN  IF leads(kDEFINE) THEN kEND_STATUTE
      ELSE IF leads(kLOOPHOLE) THEN kEND_LOOPHOLE
      ELSE IF leads(kIF) THEN kEND_IF
      ELSE <<>>

EndMarkers == {kEND_STATUTE, kEND_LOOPHOLE, kEND_IF}

RECURSIVE WellNested(_, _, _)
\* the lines from i up to the closing bookend close every block they open,
\* innermost first, each with its own marker, and every ELSE stands directly
\* in an IF block that has none yet; open are the blocks awaiting their end
WellNested(lines, i, open) ==
  IF i >= Len(lines) THEN open = <<>>
  ELSE IF Opens(lines[i]) # <<>>
    THEN WellNested(lines, i + 1,
                    Append(open, [end |-> Opens(lines[i]), switched |-> FALSE]))
  ELSE IF lines[i] \in EndMarkers
    THEN /\ open # <<>>
         /\ open[Len(open)].end = lines[i]
         /\ WellNested(lines, i + 1, SubSeq(open, 1, Len(open) - 1))
  ELSE IF lines[i] = kELSE
    THEN /\ open # <<>>
         /\ open[Len(open)].end = kEND_IF /\ ~open[Len(open)].switched
         /\ WellNested(lines, i + 1,
                       [open EXCEPT ![Len(open)].switched = TRUE])
  ELSE WellNested(lines, i + 1, open)

RECURSIVE Close(_, _, _)
\* the line that ends the block whose body starts at line i, depth blocks
\* further in being open; 0 when there is none
Close(lines, i, depth) ==
  IF i > Len(lines) THEN 0
  ELSE IF Opens(lines[i]) # <<>> THEN Close(lines, i + 1, depth + 1)
  ELSE IF lines[i] \in EndMarkers
    THEN IF depth = 0 THEN i ELSE Close(lines, i + 1, depth - 1)
  ELSE Close(lines, i + 1, depth)

RECURSIVE OwnElse(_, _, _)
\* the ELSE line of the IF block whose body starts at line i, or 0
OwnElse(lines, i, depth) ==
  IF i > Len(lines) THEN 0
  ELSE IF Opens(lines[i]) # <<>> THEN OwnElse(lines, i + 1, depth + 1)
  ELSE IF lines[i] \in EndMarkers
    THEN IF depth = 0 THEN 0 ELSE OwnElse(lines, i + 1, depth - 1)
  ELSE IF lines[i] = kELSE /\ depth = 0 THEN i
  ELSE OwnElse(lines, i + 1, depth)

RECURSIVE Statements(_, _, _)
\* the statements parse_statement reads one after the other from cursor cur
\* until the cursor is at `to`
Statements(lines, cur, to) ==
  IF cur >= to THEN <<>>
  ELSE Bind(parse_statement(lines, cur), LAMBDA r :
         IF r.exc # "" THEN <<>>
         ELSE (IF r.stmt.kind # "None" THEN <<r.stmt>> ELSE <<>>)
              \o Statements(lines, r.cur, to))

\* the LICENSE text has both bookends
ValidBookends ==
  Len(Lines) >= 2 /\ Lines[1] = kBEGIN /\ Lines[Len(Lines)] = kEND

\* C16: in a source whose blocks are properly nested and closed, parse
\* succeeds and the reader of every block returns with the cursor just past
\* the block's own end marker and with a body that holds exactly the
\* statements between the opening line and that marker (for a conditional:
\* the then-body up to its own ELSE, the else-body after it); markers of
\* nested blocks close or switch nothing but their own block.
C16_BlocksHoldTheirOwnStatements ==
  (status # "start" /\ ValidBookends /\ WellNested(Lines, 2, <<>>))
    => /\ parse(License).exc = ""
       /\ \A k \in 2..(Len(Lines) - 1) :
            Opens(Lines[k]) # <<>>
              => LET r == parse_statement(Lines, k - 1)
                     m == Close(Lines, k + 1, 0)
                     e == OwnElse(Lines, k + 1, 0)
                 IN  /\ r.exc = ""
                     /\ r.cur = m
                     /\ IF Opens(Lines[k]) # kEND_IF
                          THEN /\ r.stmt.kind \in {"DefineStatute", "LegalLoophole"}
                               /\ r.stmt.body = Statements(Lines, k, m - 1)
                        ELSE /\ r.stmt.kind = "Conditional"
                             /\ r.stmt.then_body
                                  = Statements(Lines, k, IF e = 0 THEN m - 1 ELSE e - 1)
                             /\ r.stmt.else_body
                                  = IF e = 0 THEN <<>> ELSE Statements(Lines, e, m - 1)

\* the block opened by line k has no end marker: none follows it outside
\* the blocks opened after it
Unterminated(k) == Opens(Lines[k]) # <<>> /\ Close(Lines, k + 1, 0) = 0

\* C17: an unterminated block is read leniently, whatever its kind.  In a
\* source with valid bookends, parse does not raise when a block has no end
\* marker, and the reader of that block returns at the end of input with a
\* body that holds every statement after the opening line (for a
\* conditional: the then-body up to its own ELSE, the else-body after it).
C17_UnterminatedBlocksReadToEnd ==
  (status # "start" /\ ValidBookends)
    => \A k \in 2..(Len(Lines) - 1) :
         Unterminated(k)
           => LET r == parse_statement(Lines, k - 1)
                  e == OwnElse(Lines, k + 1, 0)
                  n == Len(Lines)
              IN  /\ parse(License).exc = ""
                  /\ r.exc = ""
                  /\ r.cur = n
                  /\ IF Opens(Lines[k]) # kEND_IF
                       THEN /\ r.stmt.kind \in {"DefineStatute", "LegalLoophole"}
                            /\ r.stmt.body = Statements(Lines, k, n)
                     ELSE /\ r.stmt.kind = "Conditional"
                          /\ r.stmt.then_body
                               = Statements(Lines, k, IF e = 0 THEN n ELSE e - 1)
                          /\ r.stmt.else_body
                               = IF e = 0 THEN <<>> ELSE Statements(Lines, e, n)

\* C18: on a source with valid bookends parse terminates and fails in no
\* other way than with the SyntaxError of a bad structure: it returns a
\* Program or raises that error, and every reader step leaves the cursor
\* further on than it found it.
C18_ParseRaisesOnlySyntaxError ==
  (status # "start" /\ ValidBookends)
    => /\ parse(License).exc \in {"", "SyntaxError"}
       /\ \A cur \in 0..(Len(Lines) - 1) :
            LET r == parse_statement(Lines, cur)
            IN  r.exc \in {"", "SyntaxError"} /\ r.cur > cur

====
